---------------------------- MODULE Spec2Model ----------------------------
(***************************************************************************)
(* Wi-Fi monitor (ESP32 + FreeRTOS), src/main/GS_2semestre_STR.c.          *)
(*                                                                         *)
(* Four tasks created by app_main communicate through two bounded FreeRTOS *)
(* queues: ScannerTask -> ssidQueue -> CheckerTask -> logQueue ->          *)
(* LoggerTask; SupervisorTask only sleeps.  CheckerTask looks every SSID   *)
(* up in secureNetworks under secureListMutex and is subscribed, like the  *)
(* task that runs app_main, to the task watchdog (5 s, panic = true).      *)
(*                                                                         *)
(* Tasks interleave freely at the granularity of their blocking calls      *)
(* (the ESP32 has two cores and the tasks are not pinned).  Time is the    *)
(* watchdog's: whole seconds since its timer was last fed.                 *)
(***************************************************************************)
EXTENDS Naturals, Sequences, FiniteSets

\* ------------------------------------------------------------ constants
MAX_SSIDS == 5
LOG_QUEUE_SIZE == 10
SSID_QUEUE_SIZE == 10
SSID_BUF == 32
NUM_DEMO == 6
WDT_TIMEOUT_S == 5
\* CPUs of the platform named in the header (ESP32).
portNUM_PROCESSORS == 2

\* Scanner cycles modelled per boot (idx is an unbounded int in the code).
MaxCycles == 11

\* Scanner cycles modelled in a boot followed with the watchdog clock stopped.
MaxBootCycles == 14

\* ------------------------------------------------------------ strings
\* A C string is named by a TLA+ string and compared through its bytes.
Bytes(s) ==
  CASE s = "IoT_Secure"       -> <<"I","o","T","_","S","e","c","u","r","e">>
    [] s = "LabNet_Protected" -> <<"L","a","b","N","e","t","_","P","r","o","t","e","c","t","e","d">>
    [] s = "HomeNet_5G"       -> <<"H","o","m","e","N","e","t","_","5","G">>
    [] s = "OfficeNet"        -> <<"O","f","f","i","c","e","N","e","t">>
    [] s = "GuestNet"         -> <<"G","u","e","s","t","N","e","t">>
    [] s = "EvilTwin"         -> <<"E","v","i","l","T","w","i","n">>
    [] s = "RandomAP"         -> <<"R","a","n","d","o","m","A","P">>
    [] s = "Unknown_AP"       -> <<"U","n","k","n","o","w","n","_","A","P">>
    [] s = "iot_secure"       -> <<"i","o","t","_","s","e","c","u","r","e">>
    [] s = "IOT_SECURE"       -> <<"I","O","T","_","S","E","C","U","R","E">>
    [] s = "IoT_Secur"        -> <<"I","o","T","_","S","e","c","u","r">>
    [] s = "IoT_Secure2"      -> <<"I","o","T","_","S","e","c","u","r","e","2">>
    [] s = "GuestNet "        -> <<"G","u","e","s","t","N","e","t"," ">>
    [] s = "guestnet"         -> <<"g","u","e","s","t","n","e","t">>
    [] s = "OfficeNe"         -> <<"O","f","f","i","c","e","N","e">>
    [] s = ""                 -> <<>>

\* A comparison of only the first Len(b) bytes (strncmp with strlen(b)).
RECURSIVE StrCmpPrefixFrom(_, _, _)
StrCmpPrefixFrom(a, b, i) ==
  IF i > Len(b) THEN 0
  ELSE IF i > Len(a) THEN 1
  ELSE IF a[i] # b[i] THEN 1
  ELSE StrCmpPrefixFrom(a, b, i + 1)

strcmpPrefix(s, t) == StrCmpPrefixFrom(Bytes(s), Bytes(t), 1)

\* strcmp(a, b) = 0 exactly when the two strings have the same bytes up to
\* their terminators; only the test against 0 is used by the program, so a
\* difference is reported as 1 whatever its sign.
RECURSIVE StrCmpFrom(_, _, _)
StrCmpFrom(a, b, i) ==
  IF i > Len(a) /\ i > Len(b) THEN 0
  ELSE IF i > Len(a) \/ i > Len(b) THEN 1
  ELSE IF a[i] # b[i] THEN 1
  ELSE StrCmpFrom(a, b, i + 1)

strcmp(s, t) == StrCmpFrom(Bytes(s), Bytes(t), 1)

\* strncpy(dst, src, n): the string itself when it fits with its
\* terminator, otherwise n bytes without a terminator.
strncpy(src, n) ==
  IF Len(Bytes(src)) < n THEN src ELSE "<unterminated>"

\* ------------------------------------------------------------ data
secureNetworks ==
  <<"IoT_Secure", "LabNet_Protected", "HomeNet_5G", "OfficeNet", "GuestNet">>

demoSSIDs ==
  <<"IoT_Secure", "EvilTwin", "RandomAP", "LabNet_Protected", "Unknown_AP", "HomeNet_5G">>

\* The secureNetworks array in RAM, set from the initialiser above at boot.
VARIABLE registry

\* The loop of is_secure_network from index i (0-based, as in the code).
RECURSIVE ScanFrom(_, _)
ScanFrom(ssid, i) ==
  IF i < MAX_SSIDS
  THEN IF strcmp(ssid, registry[i + 1]) = 0 THEN 1 ELSE ScanFrom(ssid, i + 1)
  ELSE 0

\* The value is_secure_network returns (the locking is in the actions).
is_secure_network(ssid) == ScanFrom(ssid, 0)

\* snprintf of the two log formats; the longest message (51 + 31 + 7 + 11 + 1
\* bytes) fits the 128-byte buffer, so nothing is ever cut.
FormatOK(ssid) == [tag |-> "OK", ssid |-> ssid]
FormatAlert(ssid, cont) == [tag |-> "ALERTA", ssid |-> ssid, cont |-> cont]

NoData == "<uninitialized>"

\* ------------------------------------------------------------ state
VARIABLES
  mainPc,           \* position of app_main
  ssidQueue,        \* items of ssidQueue, front first
  logQueue,         \* items of logQueue, front first
  secureListMutex,  \* "free" or the task holding it
  scPc, idx,        \* ScannerTask
  chkPc, ssidData, secure, logMsg, alertCounter,   \* CheckerTask
  logPc, logIn,     \* LoggerTask and its local logMsg
  supPc,            \* SupervisorTask
  output,           \* lines printed since boot
  wdtOn, wdtSubscribed, wdtHasReset, wdtTimer,     \* task watchdog
  resetReason,      \* why the chip last booted
  lastPanic,        \* what the last watchdog panic interrupted
  cores,            \* CPUs the build schedules tasks on
  allocOk,          \* kernel objects the heap has room for at boot
  \* history of the current boot
  evSent, evDropped, evRecv, built, logSent, logDropped, logRecv,
  chkRefreshes, chkSilence,
  regReads          \* who read the registry in this boot, and who held the mutex

progVars == <<mainPc, ssidQueue, logQueue, secureListMutex, scPc, idx, chkPc,
              ssidData, secure, logMsg, alertCounter, logPc, logIn, supPc,
              output, wdtOn, wdtSubscribed, wdtHasReset, wdtTimer>>
histVars == <<evSent, evDropped, evRecv, built, logSent, logDropped, logRecv,
              chkRefreshes, chkSilence>>
bootVars == <<resetReason, lastPanic, cores, allocOk>>
vars == <<progVars, histVars, regReads, registry, bootVars>>

scannerVars == <<scPc, idx>>
checkerVars == <<chkPc, ssidData, secure, logMsg, alertCounter>>
loggerVars == <<logPc, logIn, output>>
wdtVars == <<wdtOn, wdtSubscribed, wdtHasReset, wdtTimer>>

\* The kernel objects app_main creates.
KernelObjects == {"ssidQueue", "logQueue", "secureListMutex"}

\* The state of a chip that has just booted: .data/.bss initialised, no
\* kernel object created, no task but the one that will run app_main.
Booted ==
  /\ mainPc = "create"
  /\ ssidQueue = <<>> /\ logQueue = <<>>
  /\ secureListMutex = "free"
  /\ scPc = "none" /\ idx = 0
  /\ chkPc = "none" /\ ssidData = NoData /\ secure = 0 /\ logMsg = NoData
  /\ alertCounter = 0
  /\ logPc = "none" /\ logIn = NoData
  /\ supPc = "none"
  /\ output = <<>>
  /\ wdtOn = FALSE /\ wdtSubscribed = {} /\ wdtHasReset = {} /\ wdtTimer = 0
  /\ evSent = <<>> /\ evDropped = 0 /\ evRecv = <<>> /\ built = <<>>
  /\ logSent = <<>> /\ logDropped = 0 /\ logRecv = <<>>
  /\ chkRefreshes = 0 /\ chkSilence = 0
  /\ regReads = {}
  /\ registry = secureNetworks

Init ==
  /\ Booted
  /\ resetReason = "POWERON" /\ lastPanic = "none"
  /\ cores = portNUM_PROCESSORS
  /\ allocOk = KernelObjects


\* ------------------------------------------------------------ FreeRTOS queues
\* An item put at the front (xQueueSendToFront).
SendToFront(q, item) == <<item>> \o q

\* xQueueSend appends at the back when a slot is free within the wait.
SendToBack(q, item) == Append(q, item)

\* A send that overwrites the oldest item when the queue is full.
xQueueSendOverwrite(q, cap, item) ==
  IF Len(q) < cap THEN Append(q, item) ELSE Append(Tail(q), item)

\* What a bounded-wait xQueueSend leaves in a queue of `cap` slots: the item
\* is appended, or (errQUEUE_FULL after the wait) the queue is untouched.
xQueueSend(q, cap, item) ==
  IF Len(q) < cap THEN SendToBack(q, item) ELSE q

\* Whether that xQueueSend stores the item.
SendStores(q, cap) == Len(q) < cap

\* ------------------------------------------------------------ app_main
AppMainCreate ==
  /\ mainPc = "create"
  /\ mainPc' = "wdt"
  /\ ssidQueue' = <<>> /\ logQueue' = <<>> /\ secureListMutex' = "free"
  /\ UNCHANGED <<scannerVars, checkerVars, loggerVars, supPc, wdtVars,
                 histVars, regReads, registry, bootVars>>

\* esp_task_wdt_init(5, true); esp_task_wdt_add(NULL): the timer starts and
\* the calling task is subscribed (a task just added counts as reset for
\* the running period).
AppMainWdt ==
  /\ mainPc = "wdt"
  /\ mainPc' = "spawn_scanner"
  /\ wdtOn' = TRUE /\ wdtTimer' = 0
  /\ wdtSubscribed' = wdtSubscribed \cup {"main"}
  /\ wdtHasReset' = wdtHasReset \cup {"main"}
  /\ UNCHANGED <<ssidQueue, logQueue, secureListMutex, scannerVars,
                 checkerVars, loggerVars, supPc, histVars,
                 regReads, registry, bootVars>>

AppMainSpawnScanner ==
  /\ mainPc = "spawn_scanner"
  /\ mainPc' = "spawn_checker"
  /\ scPc' = "send"
  /\ UNCHANGED <<ssidQueue, logQueue, secureListMutex, idx, checkerVars,
                 loggerVars, supPc, wdtVars, histVars,
                 regReads, registry, bootVars>>

AppMainSpawnChecker ==
  /\ mainPc = "spawn_checker"
  /\ mainPc' = "spawn_logger"
  /\ chkPc' = "wdt_add"
  /\ UNCHANGED <<ssidQueue, logQueue, secureListMutex, scannerVars, ssidData,
                 secure, logMsg, alertCounter, loggerVars, supPc, wdtVars,
                 histVars, regReads, registry, bootVars>>

AppMainSpawnLogger ==
  /\ mainPc = "spawn_logger"
  /\ mainPc' = "spawn_supervisor"
  /\ logPc' = "recv"
  /\ UNCHANGED <<ssidQueue, logQueue, secureListMutex, scannerVars,
                 checkerVars, logIn, output, supPc, wdtVars, histVars,
                 regReads, registry, bootVars>>

\* After the last xTaskCreate app_main returns and its task is deleted; the
\* task is never unsubscribed from the watchdog.
AppMainSpawnSupervisor ==
  /\ mainPc = "spawn_supervisor"
  /\ mainPc' = "returned"
  /\ supPc' = "running"
  /\ UNCHANGED <<ssidQueue, logQueue, secureListMutex, scannerVars,
                 checkerVars, loggerVars, wdtVars, histVars,
                 regReads, registry, bootVars>>

app_main ==
  \/ AppMainCreate
  \/ AppMainWdt
  \/ AppMainSpawnScanner
  \/ AppMainSpawnChecker
  \/ AppMainSpawnLogger
  \/ AppMainSpawnSupervisor

\* ------------------------------------------------------------ ScannerTask
\* An event built from the entry after the one idx selects.
ScannerEventAhead == strncpy(demoSSIDs[((idx + 1) % NUM_DEMO) + 1], SSID_BUF)

\* The event built in the current cycle.
ScannerEvent == strncpy(demoSSIDs[(idx % NUM_DEMO) + 1], SSID_BUF)

\* The same cycle with a send that waits for a slot without a timeout.
ScannerSendBlocking ==
  /\ scPc = "send"
  /\ Len(ssidQueue) < SSID_QUEUE_SIZE
  /\ ssidQueue' = Append(ssidQueue, ScannerEvent)
  /\ evSent' = Append(evSent, ScannerEvent)
  /\ idx' = idx + 1
  /\ scPc' = "delay"
  /\ UNCHANGED <<mainPc, logQueue, secureListMutex, checkerVars, loggerVars,
                 supPc, wdtVars, evDropped, evRecv, built, logSent, logDropped,
                 logRecv, chkRefreshes, chkSilence,
                 regReads, registry, bootVars>>

\* strncpy, xQueueSend with a 50 ms wait, idx++, then vTaskDelay(500 ms).
ScannerSend ==
  /\ scPc = "send"
  /\ ssidQueue' = xQueueSend(ssidQueue, SSID_QUEUE_SIZE, ScannerEvent)
  /\ IF SendStores(ssidQueue, SSID_QUEUE_SIZE)
     THEN evSent' = Append(evSent, ScannerEvent) /\ evDropped' = evDropped
     ELSE evSent' = evSent /\ evDropped' = evDropped + 1
  /\ idx' = idx + 1
  /\ scPc' = "delay"
  /\ UNCHANGED <<mainPc, logQueue, secureListMutex, checkerVars, loggerVars,
                 supPc, wdtVars, evRecv, built, logSent, logDropped, logRecv,
                 chkRefreshes, chkSilence, regReads, registry, bootVars>>

\* vTaskDelay(500 ms) expires, in a run followed for `bound` cycles.
ScannerDelayDone(bound) ==
  /\ scPc = "delay"
  /\ idx < bound
  /\ scPc' = "send"
  /\ UNCHANGED <<mainPc, ssidQueue, logQueue, secureListMutex, idx,
                 checkerVars, loggerVars, supPc, wdtVars, histVars,
                 regReads, registry, bootVars>>

ScannerWake == ScannerDelayDone(MaxCycles)

ScannerTask == ScannerSend \/ ScannerWake

\* ------------------------------------------------------------ CheckerTask
\* esp_task_wdt_add(NULL) at the head of the task.
CheckerStart ==
  /\ chkPc = "wdt_add"
  /\ chkPc' = "recv"
  /\ wdtSubscribed' = wdtSubscribed \cup {"checker"}
  /\ wdtHasReset' = wdtHasReset \cup {"checker"}
  /\ chkSilence' = 0
  /\ UNCHANGED <<mainPc, ssidQueue, logQueue, secureListMutex, scannerVars,
                 ssidData, secure, logMsg, alertCounter, loggerVars, supPc,
                 wdtOn, wdtTimer, evSent, evDropped, evRecv, built, logSent,
                 logDropped, logRecv, chkRefreshes,
                 regReads, registry, bootVars>>

\* A receive that leaves the item in the queue (xQueuePeek).
CheckerPeek ==
  /\ chkPc = "recv"
  /\ ssidQueue # <<>>
  /\ ssidData' = Head(ssidQueue)
  /\ evRecv' = Append(evRecv, Head(ssidQueue))
  /\ chkPc' = "take"
  /\ UNCHANGED <<mainPc, ssidQueue, logQueue, secureListMutex, scannerVars,
                 secure, logMsg, alertCounter, loggerVars, supPc, wdtVars,
                 evSent, evDropped, built, logSent, logDropped, logRecv,
                 chkRefreshes, chkSilence, regReads, registry, bootVars>>

\* xQueueReceive(ssidQueue, &ssidData, portMAX_DELAY).
CheckerReceive ==
  /\ chkPc = "recv"
  /\ ssidQueue # <<>>
  /\ ssidData' = Head(ssidQueue)
  /\ ssidQueue' = Tail(ssidQueue)
  /\ evRecv' = Append(evRecv, Head(ssidQueue))
  /\ chkPc' = "take"
  /\ UNCHANGED <<mainPc, logQueue, secureListMutex, scannerVars, secure,
                 logMsg, alertCounter, loggerVars, supPc, wdtVars, evSent,
                 evDropped, built, logSent, logDropped, logRecv, chkRefreshes,
                 chkSilence, regReads, registry, bootVars>>

\* A scan entered without taking the mutex.
CheckerTakeSkipped ==
  /\ chkPc = "take"
  /\ chkPc' = "scan"
  /\ UNCHANGED <<mainPc, ssidQueue, logQueue, secureListMutex, scannerVars,
                 ssidData, secure, logMsg, alertCounter, loggerVars, supPc,
                 wdtVars, histVars, regReads, registry, bootVars>>

\* is_secure_network: xSemaphoreTake(secureListMutex, portMAX_DELAY).
CheckerTake ==
  /\ chkPc = "take"
  /\ secureListMutex = "free"
  /\ secureListMutex' = "checker"
  /\ chkPc' = "scan"
  /\ UNCHANGED <<mainPc, ssidQueue, logQueue, scannerVars, ssidData, secure,
                 logMsg, alertCounter, loggerVars, supPc, wdtVars, histVars,
                 regReads, registry, bootVars>>

\* A scan that returns from inside the loop on a match, the mutex not given.
CheckerScanReturnInLoop ==
  /\ chkPc = "scan"
  /\ secure' = is_secure_network(ssidData)
  /\ secureListMutex' = IF secure' = 1 THEN "checker" ELSE "free"
  /\ chkPc' = "format"
  /\ regReads' = regReads \cup {<<"checker", secureListMutex>>}
  /\ UNCHANGED <<mainPc, ssidQueue, logQueue, scannerVars, ssidData, logMsg,
                 alertCounter, loggerVars, supPc, wdtVars, histVars,
                 registry, bootVars>>

\* is_secure_network: the loop, xSemaphoreGive, return.
CheckerScanGive ==
  /\ chkPc = "scan"
  /\ secure' = is_secure_network(ssidData)
  /\ secureListMutex' = "free"
  /\ chkPc' = "format"
  /\ regReads' = regReads \cup {<<"checker", secureListMutex>>}
  /\ UNCHANGED <<mainPc, ssidQueue, logQueue, scannerVars, ssidData, logMsg,
                 alertCounter, loggerVars, supPc, wdtVars, histVars,
                 registry, bootVars>>

\* A counter incremented in both branches.
NextAlertCounterAlways == alertCounter + 1

\* alertCounter after the branch on the result of is_secure_network.
NextAlertCounter == IF secure # 0 THEN alertCounter ELSE alertCounter + 1

\* A message formatted before the increment.
NextLogMsgStale ==
  IF secure # 0 THEN FormatOK(ssidData)
  ELSE FormatAlert(ssidData, alertCounter)

\* The message snprintf writes in that branch.
NextLogMsg ==
  IF secure # 0 THEN FormatOK(ssidData)
  ELSE FormatAlert(ssidData, NextAlertCounter)

CheckerFormat ==
  /\ chkPc = "format"
  /\ alertCounter' = NextAlertCounter
  /\ logMsg' = NextLogMsg
  /\ built' = Append(built, NextLogMsg)
  /\ chkPc' = "publish"
  /\ UNCHANGED <<mainPc, ssidQueue, logQueue, secureListMutex, scannerVars,
                 ssidData, secure, loggerVars, supPc, wdtVars, evSent,
                 evDropped, evRecv, logSent, logDropped, logRecv, chkRefreshes,
                 chkSilence, regReads, registry, bootVars>>

\* The same send waiting for a slot without a timeout.
CheckerPublishBlocking ==
  /\ chkPc = "publish"
  /\ Len(logQueue) < LOG_QUEUE_SIZE
  /\ logQueue' = Append(logQueue, logMsg)
  /\ logSent' = Append(logSent, logMsg)
  /\ chkPc' = "wdt_reset"
  /\ UNCHANGED <<mainPc, ssidQueue, secureListMutex, scannerVars, ssidData,
                 secure, logMsg, alertCounter, loggerVars, supPc, wdtVars,
                 evSent, evDropped, evRecv, built, logDropped, logRecv,
                 chkRefreshes, chkSilence, regReads, registry, bootVars>>

\* xQueueSend(logQueue, &logMsg, 50 ms).
CheckerPublish ==
  /\ chkPc = "publish"
  /\ logQueue' = xQueueSend(logQueue, LOG_QUEUE_SIZE, logMsg)
  /\ IF SendStores(logQueue, LOG_QUEUE_SIZE)
     THEN logSent' = Append(logSent, logMsg) /\ logDropped' = logDropped
     ELSE logSent' = logSent /\ logDropped' = logDropped + 1
  /\ chkPc' = "wdt_reset"
  /\ UNCHANGED <<mainPc, ssidQueue, secureListMutex, scannerVars, ssidData,
                 secure, logMsg, alertCounter, loggerVars, supPc, wdtVars,
                 evSent, evDropped, evRecv, built, logRecv, chkRefreshes,
                 chkSilence, regReads, registry, bootVars>>

\* esp_task_wdt_reset(): the caller is marked; once every subscribed task is
\* marked the timer is fed and the marks are cleared.
WdtMarked(t) == wdtHasReset \cup {t}
WdtFeeds(t) == WdtMarked(t) = wdtSubscribed

CheckerWdtReset ==
  /\ chkPc = "wdt_reset"
  /\ IF WdtFeeds("checker")
     THEN wdtHasReset' = {} /\ wdtTimer' = 0
     ELSE wdtHasReset' = WdtMarked("checker") /\ wdtTimer' = wdtTimer
  /\ chkRefreshes' = chkRefreshes + 1
  /\ chkSilence' = 0
  /\ chkPc' = "delay"
  /\ UNCHANGED <<mainPc, ssidQueue, logQueue, secureListMutex, scannerVars,
                 ssidData, secure, logMsg, alertCounter, loggerVars, supPc,
                 wdtOn, wdtSubscribed, evSent, evDropped, evRecv, built,
                 logSent, logDropped, logRecv, regReads, registry, bootVars>>

\* vTaskDelay(5 ms) expires.
CheckerDelayDone ==
  /\ chkPc = "delay"
  /\ chkPc' = "recv"
  /\ UNCHANGED <<mainPc, ssidQueue, logQueue, secureListMutex, scannerVars,
                 ssidData, secure, logMsg, alertCounter, loggerVars, supPc,
                 wdtVars, histVars, regReads, registry, bootVars>>

CheckerTask ==
  \/ CheckerStart
  \/ CheckerReceive
  \/ CheckerTake
  \/ CheckerScanGive
  \/ CheckerFormat
  \/ CheckerPublish
  \/ CheckerWdtReset
  \/ CheckerDelayDone

\* ------------------------------------------------------------ LoggerTask
\* A receive that takes the newest record instead of the oldest.
LoggerReceiveNewest ==
  /\ logPc = "recv"
  /\ logQueue # <<>>
  /\ logIn' = logQueue[Len(logQueue)]
  /\ logQueue' = SubSeq(logQueue, 1, Len(logQueue) - 1)
  /\ logRecv' = Append(logRecv, logQueue[Len(logQueue)])
  /\ logPc' = "print"
  /\ UNCHANGED <<mainPc, ssidQueue, secureListMutex, scannerVars, checkerVars,
                 output, supPc, wdtVars, evSent, evDropped, evRecv, built,
                 logSent, logDropped, chkRefreshes, chkSilence,
                 regReads, registry, bootVars>>

\* xQueueReceive(logQueue, &logMsg, portMAX_DELAY).
LoggerReceive ==
  /\ logPc = "recv"
  /\ logQueue # <<>>
  /\ logIn' = Head(logQueue)
  /\ logQueue' = Tail(logQueue)
  /\ logRecv' = Append(logRecv, Head(logQueue))
  /\ logPc' = "print"
  /\ UNCHANGED <<mainPc, ssidQueue, secureListMutex, scannerVars, checkerVars,
                 output, supPc, wdtVars, evSent, evDropped, evRecv, built,
                 logSent, logDropped, chkRefreshes, chkSilence,
                 regReads, registry, bootVars>>

\* A print that emits the record a second time.
LoggerPrintTwice ==
  /\ logPc = "print"
  /\ output' = output \o <<logIn, logIn>>
  /\ logPc' = "recv"
  /\ UNCHANGED <<mainPc, ssidQueue, logQueue, secureListMutex, scannerVars,
                 checkerVars, logIn, supPc, wdtVars, histVars,
                 regReads, registry, bootVars>>

\* printf("%s\n", logMsg.message).
LoggerPrint ==
  /\ logPc = "print"
  /\ output' = Append(output, logIn)
  /\ logPc' = "recv"
  /\ UNCHANGED <<mainPc, ssidQueue, logQueue, secureListMutex, scannerVars,
                 checkerVars, logIn, supPc, wdtVars, histVars,
                 regReads, registry, bootVars>>

LoggerTask == LoggerReceive \/ LoggerPrint

\* ------------------------------------------------------------ SupervisorTask
\* The loop body holds only vTaskDelay(1000 ms).
\* A cycle that empties ssidQueue when it finds it full before sleeping.
SupervisorSleepResetsQueue ==
  /\ supPc = "running"
  /\ supPc' = "sleeping"
  /\ ssidQueue' = IF Len(ssidQueue) = SSID_QUEUE_SIZE THEN <<>> ELSE ssidQueue
  /\ UNCHANGED <<mainPc, logQueue, secureListMutex, scannerVars,
                 checkerVars, loggerVars, wdtVars, histVars,
                 regReads, registry, bootVars>>

SupervisorSleep ==
  /\ supPc = "running"
  /\ supPc' = "sleeping"
  /\ UNCHANGED <<mainPc, ssidQueue, logQueue, secureListMutex, scannerVars,
                 checkerVars, loggerVars, wdtVars, histVars,
                 regReads, registry, bootVars>>

SupervisorWake ==
  /\ supPc = "sleeping"
  /\ supPc' = "running"
  /\ UNCHANGED <<mainPc, ssidQueue, logQueue, secureListMutex, scannerVars,
                 checkerVars, loggerVars, wdtVars, histVars,
                 regReads, registry, bootVars>>

SupervisorTask == SupervisorSleep \/ SupervisorWake

\* ------------------------------------------------------------ task watchdog
\* One second passes without the timer being fed.
Tick ==
  /\ wdtOn
  /\ wdtTimer < WDT_TIMEOUT_S
  /\ wdtTimer' = wdtTimer + 1
  /\ chkSilence' = IF "checker" \in wdtSubscribed THEN chkSilence + 1 ELSE chkSilence
  /\ UNCHANGED <<mainPc, ssidQueue, logQueue, secureListMutex, scannerVars,
                 checkerVars, loggerVars, supPc, wdtOn, wdtSubscribed,
                 wdtHasReset, evSent, evDropped, evRecv, built, logSent,
                 logDropped, logRecv, chkRefreshes,
                 regReads, registry, bootVars>>

\* A counter kept across the reboot (as in RTC no-init memory).
RebootAlertCounterKept == alertCounter

\* `static int alertCounter = 0` is initialised again by every boot.
RebootAlertCounter == 0

\* The chip reboots after a panic: RAM is initialised again; only the reset
\* reason and what does not depend on the run survive.
Restart(reason, panic) ==
  /\ mainPc' = "create"
  /\ ssidQueue' = <<>> /\ logQueue' = <<>>
  /\ secureListMutex' = "free"
  /\ scPc' = "none" /\ idx' = 0
  /\ chkPc' = "none" /\ ssidData' = NoData /\ secure' = 0 /\ logMsg' = NoData
  /\ alertCounter' = RebootAlertCounter
  /\ logPc' = "none" /\ logIn' = NoData
  /\ supPc' = "none"
  /\ output' = <<>>
  /\ wdtOn' = FALSE /\ wdtSubscribed' = {} /\ wdtHasReset' = {} /\ wdtTimer' = 0
  /\ evSent' = <<>> /\ evDropped' = 0 /\ evRecv' = <<>> /\ built' = <<>>
  /\ logSent' = <<>> /\ logDropped' = 0 /\ logRecv' = <<>>
  /\ chkRefreshes' = 0 /\ chkSilence' = 0
  /\ regReads' = {}
  /\ registry' = secureNetworks
  /\ resetReason' = reason
  /\ lastPanic' = panic
  /\ cores' = cores
  /\ allocOk' = allocOk

\* The timer expires (panic = true): the chip reboots.
WdtPanic ==
  /\ wdtOn
  /\ wdtTimer = WDT_TIMEOUT_S
  /\ Restart("TASK_WDT",
             IF chkSilence = WDT_TIMEOUT_S /\ alertCounter > 0
             THEN "checker_starved" ELSE "other")

\* ------------------------------------------------------------ specification
Next ==
  \/ app_main
  \/ ScannerTask
  \/ CheckerTask
  \/ LoggerTask
  \/ SupervisorTask
  \/ Tick
  \/ WdtPanic

Spec == Init /\ [][Next]_vars

\* ------------------------------------------------------------ one boot
\* The pipeline between two restarts, followed for more cycles with the
\* watchdog clock stopped: with no second elapsing the timer never expires.
\* SupervisorTask, which touches nothing, is left asleep.
NextBoot ==
  \/ app_main
  \/ ScannerSend
  \/ ScannerDelayDone(MaxBootCycles)
  \/ CheckerTask
  \/ LoggerTask

SpecBoot == Init /\ [][NextBoot]_vars

\* ------------------------------------------------------------ scheduling
\* The four tasks app_main creates.
Tasks == {"scanner", "checker", "logger", "supervisor"}

\* The priorities the header comment gives the tasks (Scanner high, Checker
\* medium, Logger and Supervisor low).
uxPriorityAsCommented(t) ==
  CASE t = "scanner" -> 3
    [] t = "checker" -> 2
    [] t = "logger" -> 1
    [] t = "supervisor" -> 1

\* The uxPriority argument of each xTaskCreate; FreeRTOS runs the ready task
\* with the greatest number first.
uxPriority(t) ==
  CASE t = "scanner" -> 1
    [] t = "checker" -> 2
    [] t = "logger" -> 3
    [] t = "supervisor" -> 2

\* The task has been created in this boot.
Created(t) ==
  CASE t = "scanner" -> scPc # "none"
    [] t = "checker" -> chkPc # "none"
    [] t = "logger" -> logPc # "none"
    [] t = "supervisor" -> supPc # "none"

\* The task is ready to run: created and not blocked in vTaskDelay, in
\* xQueueReceive on an empty queue or in xSemaphoreTake on a held mutex.
Ready(t) ==
  CASE t = "scanner" -> scPc = "send"
    [] t = "checker" ->
         \/ chkPc \in {"wdt_add", "scan", "format", "publish", "wdt_reset"}
         \/ chkPc = "recv" /\ ssidQueue # <<>>
         \/ chkPc = "take" /\ secureListMutex = "free"
    [] t = "logger" ->
         \/ logPc = "print"
         \/ logPc = "recv" /\ logQueue # <<>>
    [] t = "supervisor" -> supPc = "running"

\* Ready tasks of a priority above that of t.
ReadyAbove(t) == {u \in Tasks : Ready(u) /\ uxPriority(u) > uxPriority(t)}

\* The scheduler gives t a CPU: fewer ready tasks of higher priority than
\* there are CPUs (tasks of equal priority share by time slicing).
Dispatchable(t) == Ready(t) /\ Cardinality(ReadyAbove(t)) < cores

\* The steps a task takes on a CPU; the expiry of a vTaskDelay is the tick
\* interrupt's doing. app_main runs in a task whose priority is set outside
\* this file, so its steps are left unconstrained.
CheckerRuns ==
  \/ CheckerStart
  \/ CheckerReceive
  \/ CheckerTake
  \/ CheckerScanGive
  \/ CheckerFormat
  \/ CheckerPublish
  \/ CheckerWdtReset

NextSched ==
  \/ app_main
  \/ Dispatchable("scanner") /\ ScannerSend
  \/ ScannerWake
  \/ Dispatchable("checker") /\ CheckerRuns
  \/ CheckerDelayDone
  \/ Dispatchable("logger") /\ LoggerTask
  \/ Dispatchable("supervisor") /\ SupervisorSleep
  \/ SupervisorWake
  \/ Tick
  \/ WdtPanic

\* A unicore build (CONFIG_FREERTOS_UNICORE) or both CPUs.
InitSched ==
  /\ Booted
  /\ resetReason = "POWERON" /\ lastPanic = "none"
  /\ cores \in 1..portNUM_PROCESSORS
  /\ allocOk = KernelObjects

SpecSched == InitSched /\ [][NextSched]_vars

\* ------------------------------------------------------------ creation failure
\* xQueueCreate and xSemaphoreCreateMutex return NULL when the heap has no
\* room; app_main stores what they return and goes on.
Handle(obj) == obj \in allocOk

\* The kernel object the statement a task stands at operates on.
Uses(t, obj) ==
  CASE t = "scanner" -> scPc = "send" /\ obj = "ssidQueue"
    [] t = "checker" ->
         \/ chkPc = "recv" /\ obj = "ssidQueue"
         \/ chkPc \in {"take", "scan"} /\ obj = "secureListMutex"
         \/ chkPc = "publish" /\ obj = "logQueue"
    [] t = "logger" -> logPc = "recv" /\ obj = "logQueue"
    [] t = "supervisor" -> FALSE

\* A queue or semaphore call on a NULL handle: configASSERT fails, or the
\* call dereferences NULL; either way the chip panics and reboots.
NullHandlePanic ==
  /\ \E t \in Tasks, obj \in KernelObjects : Uses(t, obj) /\ ~Handle(obj)
  /\ Restart("PANIC", lastPanic)

NextAlloc ==
  \/ app_main
  \/ Handle("ssidQueue") /\ ScannerSend
  \/ ScannerWake
  \/ CheckerStart
  \/ Handle("ssidQueue") /\ CheckerReceive
  \/ Handle("secureListMutex") /\ CheckerTake
  \/ Handle("secureListMutex") /\ CheckerScanGive
  \/ CheckerFormat
  \/ Handle("logQueue") /\ CheckerPublish
  \/ CheckerWdtReset
  \/ CheckerDelayDone
  \/ Handle("logQueue") /\ LoggerReceive
  \/ LoggerPrint
  \/ SupervisorTask
  \/ Tick
  \/ WdtPanic
  \/ NullHandlePanic

\* Any of the three creations may fail.
InitAlloc ==
  /\ Booted
  /\ resetReason = "POWERON" /\ lastPanic = "none"
  /\ cores = portNUM_PROCESSORS
  /\ allocOk \in SUBSET KernelObjects

SpecAlloc == InitAlloc /\ [][NextAlloc]_vars


\* ------------------------------------------------------------ probe harness
\* CheckerTask and LoggerTask driven by a sensing collaborator that may
\* produce any of these identifiers: the authorized names, the other demo
\* names, and names differing from an authorized one in case, by a missing
\* or an extra byte, or empty.
ProbeIdentifiers ==
  {"IoT_Secure", "LabNet_Protected", "HomeNet_5G", "OfficeNet", "GuestNet",
   "EvilTwin", "RandomAP", "Unknown_AP",
   "iot_secure", "IOT_SECURE", "IoT_Secur", "IoT_Secure2", "GuestNet ",
   "guestnet", "OfficeNe", ""}

\* Events the collaborator produces in one run.
MaxProbes == 2

\* app_main has created the queues, the mutex, CheckerTask and LoggerTask.
InitProbe ==
  /\ mainPc = "returned"
  /\ ssidQueue = <<>> /\ logQueue = <<>>
  /\ secureListMutex = "free"
  /\ scPc = "none" /\ idx = 0
  /\ chkPc = "wdt_add" /\ ssidData = NoData /\ secure = 0 /\ logMsg = NoData
  /\ alertCounter = 0
  /\ logPc = "recv" /\ logIn = NoData
  /\ supPc = "none"
  /\ output = <<>>
  /\ wdtOn = TRUE /\ wdtSubscribed = {"main"} /\ wdtHasReset = {"main"}
  /\ wdtTimer = 0
  /\ evSent = <<>> /\ evDropped = 0 /\ evRecv = <<>> /\ built = <<>>
  /\ logSent = <<>> /\ logDropped = 0 /\ logRecv = <<>>
  /\ chkRefreshes = 0 /\ chkSilence = 0
  /\ regReads = {}
  /\ registry = secureNetworks
  /\ resetReason = "POWERON" /\ lastPanic = "none"
  /\ cores = portNUM_PROCESSORS
  /\ allocOk = KernelObjects

ProbeSend ==
  /\ Len(evSent) + evDropped < MaxProbes
  /\ \E id \in ProbeIdentifiers :
       LET ev == strncpy(id, SSID_BUF) IN
       /\ ssidQueue' = xQueueSend(ssidQueue, SSID_QUEUE_SIZE, ev)
       /\ IF SendStores(ssidQueue, SSID_QUEUE_SIZE)
          THEN evSent' = Append(evSent, ev) /\ evDropped' = evDropped
          ELSE evSent' = evSent /\ evDropped' = evDropped + 1
  /\ UNCHANGED <<mainPc, logQueue, secureListMutex, scannerVars, checkerVars,
                 loggerVars, supPc, wdtVars, evRecv, built, logSent,
                 logDropped, logRecv, chkRefreshes, chkSilence,
                 regReads, registry, bootVars>>

NextProbe ==
  \/ ProbeSend
  \/ CheckerTask
  \/ LoggerTask

SpecProbe == InitProbe /\ [][NextProbe]_vars

\* ------------------------------------------------------------ vocabulary
\* The authorized identifiers as a set of names.
AuthorizedSet == {secureNetworks[i] : i \in 1..MAX_SSIDS}

IsPrefix(s, t) == Len(s) <= Len(t) /\ SubSeq(t, 1, Len(s)) = s

\* Number of identifiers of a sequence that are not authorized.
RECURSIVE CountUnauthorized(_)
CountUnauthorized(events) ==
  IF events = <<>> THEN 0
  ELSE CountUnauthorized(Tail(events))
       + (IF Head(events) \in AuthorizedSet THEN 0 ELSE 1)

\* The record the k-th event of a sequence must give rise to.
ExpectedRecord(events, k) ==
  IF events[k] \in AuthorizedSet
  THEN [tag |-> "OK", ssid |-> events[k]]
  ELSE [tag |-> "ALERTA", ssid |-> events[k],
        cont |-> CountUnauthorized(SubSeq(events, 1, k))]

\* Alert records of a sequence of records.
Alerts(records) == SelectSeq(records, LAMBDA r : r.tag = "ALERTA")

\* Events CheckerTask has taken off ssidQueue and not yet tried to publish.
CheckerInFlight ==
  IF chkPc \in {"take", "scan", "format", "publish"} THEN 1 ELSE 0

\* Events CheckerTask has classified (taken the branch on) since boot.
Classified == SubSeq(evRecv, 1, Len(built))

\* Events that entered ssidQueue and are not classified yet.
Pending ==
  (IF chkPc \in {"take", "scan", "format"} THEN <<ssidData>> ELSE <<>>)
  \o ssidQueue

\* ------------------------------------------------------------ claims

\* C1: as long as no xQueueSend onto logQueue has timed out, the records
\* CheckerTask has enqueued are exactly the records of the first events
\* ScannerTask enqueued, one per event and in the same order; every event
\* without a record yet is still in ssidQueue or in CheckerTask's hands, so
\* N events give exactly N records once CheckerTask has worked them off.
C1_RecordsFollowEvents ==
  logDropped = 0 =>
    /\ Len(evSent) = Len(logSent) + CheckerInFlight + Len(ssidQueue)
    /\ \A i \in 1..Len(logSent) : logSent[i] = ExpectedRecord(evSent, i)

\* C1 witness: several events went through without any drop and
\* CheckerTask is idle with ssidQueue empty.
C1_Witness ==
  /\ logDropped = 0 /\ evDropped = 0
  /\ Len(evSent) >= 4 /\ Len(logSent) = Len(evSent)
  /\ chkPc = "recv" /\ ssidQueue = <<>>

\* C2: an event that entered ssidQueue is classified exactly once and never
\* lost: the events classified so far followed by the pending ones are the
\* events enqueued, and no step takes an event out of that sequence.
C2_Accounted == Classified \o Pending

C2_EveryEventClassifiedOnce ==
  /\ [](C2_Accounted = evSent)
  /\ [][IsPrefix(C2_Accounted, C2_Accounted')]_vars

\* C3: alertCounter is the number of unauthorized events among the events
\* classified since boot, whatever happened to their records.
C3_AlertCounterCounts ==
  alertCounter = CountUnauthorized(Classified)

\* C3 witness: an alert record was dropped on a full logQueue and the
\* counter counts its event all the same.
C3_Witness ==
  /\ chkPc = "recv"
  /\ logDropped >= 1
  /\ alertCounter > Len(Alerts(logSent))
  /\ alertCounter = CountUnauthorized(evRecv)


\* C4: CheckerTask never goes longer than the watchdog deadline without a
\* refresh while the system keeps running: once it has, no more time passes
\* before the panic, and the panic reboots the chip into a state where
\* alertCounter is 0, both queues are empty, the mutex is free and no task
\* exists but the one about to run app_main.
C4_StarvedCheckerRestarts ==
  /\ chkSilence <= WDT_TIMEOUT_S
  /\ chkSilence = WDT_TIMEOUT_S => (~ENABLED Tick /\ ENABLED WdtPanic)
  /\ mainPc = "create" => Booted

\* C4 witness: the chip has just rebooted from a panic that found
\* CheckerTask silent for the whole deadline with alerts counted.
C4_Witness ==
  /\ resetReason = "TASK_WDT"
  /\ lastPanic = "checker_starved"
  /\ mainPc = "create"
  /\ alertCounter = 0

\* A step other than the reboot.
SameBoot == ~(mainPc # "create" /\ mainPc' = "create")

C6_RecordsClassifyEvents ==
  /\ Len(built) <= Len(evRecv)
  /\ \A k \in 1..Len(built) : built[k] = ExpectedRecord(evRecv, k)
  /\ \A k \in 1..Len(Alerts(built)) : Alerts(built)[k].cont = k
  /\ chkPc \in {"publish"} => logMsg = built[Len(built)]

\* C6 witness: authorized, alert 1, alert 2, authorized have been built.
C6_Witness ==
  /\ Len(built) >= 4
  /\ built[1].tag = "OK" /\ built[2].tag = "ALERTA" /\ built[2].cont = 1
  /\ built[3].tag = "ALERTA" /\ built[3].cont = 2 /\ built[4].tag = "OK"

\* C8: both queues are FIFO: what ScannerTask enqueued is what CheckerTask
\* dequeued followed by the content of ssidQueue, and what CheckerTask
\* enqueued is what LoggerTask dequeued followed by the content of logQueue.
C8_QueuesAreFifo ==
  /\ evSent = evRecv \o ssidQueue
  /\ logSent = logRecv \o logQueue

\* C8 witness: both consumers have dequeued several items while more than
\* one item is waiting in each queue.
C8_Witness ==
  /\ Len(evRecv) >= 3 /\ Len(ssidQueue) >= 2
  /\ Len(logRecv) >= 2 /\ Len(logQueue) >= 2

\* C9: neither queue ever holds more than its 10 slots; an xQueueSend that
\* times out on a full queue changes no queue, loses only its own item, and
\* the sender goes on to its next statement, which it can execute.
C9_FullQueueDropsOnlyItem ==
  /\ [](Len(ssidQueue) <= SSID_QUEUE_SIZE /\ Len(logQueue) <= LOG_QUEUE_SIZE)
  /\ [](chkPc = "wdt_reset" => ENABLED CheckerWdtReset)
  /\ [](scPc \in {"none", "send", "delay"})
  /\ [](chkPc \in {"none", "wdt_add", "recv", "take", "scan", "format",
                    "publish", "wdt_reset", "delay"})
  /\ [][(scPc = "send" /\ scPc' # "send" /\ SameBoot
         /\ Len(ssidQueue) = SSID_QUEUE_SIZE)
        => /\ ssidQueue' = ssidQueue /\ logQueue' = logQueue
           /\ evDropped' = evDropped + 1
           /\ scPc' = "delay"]_vars
  /\ [][(chkPc = "publish" /\ chkPc' # "publish" /\ SameBoot
         /\ Len(logQueue) = LOG_QUEUE_SIZE)
        => /\ logQueue' = logQueue /\ ssidQueue' = ssidQueue
           /\ logDropped' = logDropped + 1
           /\ chkPc' = "wdt_reset"]_vars

\* C9 witness: CheckerTask has just lost a record on a full logQueue and
\* stands at its next statement.
C9_Witness ==
  /\ chkPc = "wdt_reset"
  /\ logDropped = 1
  /\ Len(logQueue) = LOG_QUEUE_SIZE

\* C10: CheckerTask is never blocked at its xQueueSend onto logQueue nor at
\* the refresh that follows; it has refreshed the watchdog exactly once for
\* every publish attempt it has completed, stored or dropped, and so once
\* for every event it has finished.
C10_RefreshFollowsPublish ==
  /\ chkPc = "publish" => ENABLED CheckerPublish
  /\ chkPc = "wdt_reset" => ENABLED CheckerWdtReset
  /\ chkRefreshes + (IF chkPc = "wdt_reset" THEN 1 ELSE 0)
       = Len(logSent) + logDropped
  /\ Len(evRecv) = chkRefreshes + CheckerInFlight
                     + (IF chkPc = "wdt_reset" THEN 1 ELSE 0)

\* C10 witness: the watchdog was refreshed after a publish attempt that
\* found logQueue full for the whole wait.
C10_Witness ==
  /\ chkPc = "delay"
  /\ logDropped >= 1
  /\ Len(logQueue) = LOG_QUEUE_SIZE
  /\ chkRefreshes = Len(evRecv)


\* C7: is_secure_network returns 1 for an identifier that is byte for byte
\* one of the authorized names and 0 for any other, in which case the
\* caller goes on like after a match, the mutex released.
C7_ExactMatch ==
  chkPc = "format" =>
    /\ secure = (IF ssidData \in AuthorizedSet THEN 1 ELSE 0)
    /\ secureListMutex = "free"
    /\ ENABLED CheckerFormat

\* C7 witness: a name differing from an authorized one only in case was
\* refused after an authorized one was accepted.
C7_Witness ==
  /\ chkPc = "format"
  /\ ssidData = "IOT_SECURE" /\ secure = 0
  /\ Len(built) = 1 /\ built[1] = [tag |-> "OK", ssid |-> "IoT_Secure"]


\* C11: secureListMutex is held for the whole scan of is_secure_network and
\* given back on every way out of it, the break on the first match included:
\* it is held exactly while CheckerTask is between the take and the give, it
\* is free whenever is_secure_network has returned, and a held mutex never
\* passes to another holder without being given first.
C11_LockHeldOnlyForScan ==
  /\ [](secureListMutex \in {"free", "checker"})
  /\ [](secureListMutex = "checker" <=> chkPc = "scan")
  /\ [][secureListMutex # "free" =>
          secureListMutex' \in {"free", secureListMutex}]_vars

\* C11 witness: is_secure_network has returned through the break at the
\* first entry of the list, and the mutex is free.
C11_Witness ==
  /\ chkPc = "format"
  /\ ssidData = "IoT_Secure" /\ secure = 1
  /\ secureListMutex = "free"
  /\ Len(evRecv) = 1


\* A step of LoggerTask on a CPU.
LoggerRuns == logPc # "none" /\ logPc' # "none" /\ logPc' # logPc

\* C12: LoggerTask has the lowest priority of the four tasks, so it runs
\* only when no other task is ready to run and never while CheckerTask is
\* validating an event.
C12_LoggerRunsLast ==
  /\ [](\A t \in Tasks :
          Created("logger") /\ Created(t) =>
            uxPriority("logger") <= uxPriority(t))
  /\ [][LoggerRuns => \A t \in Tasks \ {"logger"} : ~Ready(t)]_vars
  /\ [][LoggerRuns => chkPc \notin {"take", "scan", "format"}]_vars


\* C13: the lines LoggerTask has printed are the records it has dequeued so
\* far, in dequeue order and each exactly once (the record in its hands is
\* the last dequeued and not printed yet), and a step within a boot only
\* appends to them.
C13_OutputFollowsDequeues ==
  /\ [](output = SubSeq(logRecv, 1,
                        Len(logRecv) - (IF logPc = "print" THEN 1 ELSE 0)))
  /\ [](logPc = "print" => logRecv # <<>> /\ logIn = logRecv[Len(logRecv)])
  /\ [][SameBoot => IsPrefix(output, output')]_vars

\* C13 witness: three lines are out, a fourth record is in LoggerTask's
\* hands and more are queued behind it.
C13_Witness ==
  /\ Len(output) = 3
  /\ logPc = "print"
  /\ Len(logQueue) >= 2
  /\ output = SubSeq(logRecv, 1, 3)


\* C14: when the creation of ssidQueue, logQueue or secureListMutex returns
\* no handle, no task goes on to use what was not created: no task ever
\* stands at a send, receive, take or give on a kernel object that does not
\* exist.
C14_NoUseOfMissingObject ==
  \A t \in Tasks, obj \in KernelObjects : Uses(t, obj) => Handle(obj)


\* Entry k mod 6 of the demonstration sequence.
DemoEntry(k) == demoSSIDs[(k % NUM_DEMO) + 1]

\* The entries of cycles from..idx-1, in order.
RECURSIVE DemoEntries(_)
DemoEntries(from) ==
  IF from >= idx THEN <<>> ELSE <<DemoEntry(from)>> \o DemoEntries(from + 1)

\* s can be obtained from t by leaving elements out.
RECURSIVE IsSubsequence(_, _)
IsSubsequence(s, t) ==
  IF s = <<>> THEN TRUE
  ELSE IF t = <<>> THEN FALSE
  ELSE IF Head(s) = Head(t) THEN IsSubsequence(Tail(s), Tail(t))
  ELSE IsSubsequence(s, Tail(t))

\* One cycle of ScannerTask, from the strncpy to the vTaskDelay.
ScannerCycle == scPc = "send" /\ scPc' = "delay"

\* C15: cycle k of ScannerTask (k counted from 0, dropped cycles included)
\* offers entry k mod 6 of the demonstration sequence: idx counts the cycles
\* completed, a cycle either appends that entry to ssidQueue or, the queue
\* being full, leaves ssidQueue as it is, and either way the next cycle is
\* cycle k + 1, so a dropped entry is skipped and not offered again.
C15_CycleOffersEntryKMod6 ==
  /\ [](idx = Len(evSent) + evDropped)
  /\ [](scPc = "send" => ScannerEvent = DemoEntry(idx))
  /\ [](IsSubsequence(evSent, DemoEntries(0)))
  /\ [](evDropped = 0 => evSent = DemoEntries(0))
  /\ [][ScannerCycle =>
          /\ idx' = idx + 1
          /\ ssidQueue' = IF Len(ssidQueue) < SSID_QUEUE_SIZE
                          THEN Append(ssidQueue, DemoEntry(idx))
                          ELSE ssidQueue]_vars

\* C15 witness: cycle 10 found ssidQueue full, its entry was dropped, and
\* idx went on to 11 with the ten earlier entries queued in sequence order.
C15_Witness ==
  /\ scPc = "delay"
  /\ idx = 11 /\ evDropped = 1
  /\ Len(ssidQueue) = SSID_QUEUE_SIZE
  /\ ssidQueue = SubSeq(DemoEntries(0), 1, SSID_QUEUE_SIZE)
  /\ evSent = ssidQueue


\* C16: the authorized list is read-only after startup and protected: no
\* step changes the secureNetworks array, which always holds its initial
\* names; every read of it is made by a task holding secureListMutex; and
\* the only reader is CheckerTask, never ScannerTask, LoggerTask or
\* SupervisorTask.
C16_RegistryReadOnlyUnderLock ==
  /\ [](registry = secureNetworks)
  /\ [][registry' = registry]_vars
  /\ [](\A r \in regReads : r[2] = r[1])
  /\ [](\A r \in regReads : r[1] \notin {"scanner", "logger", "supervisor"})
  /\ [][~(regReads' \subseteq regReads) => secureListMutex = "checker"]_vars

\* C16 witness: the list has been read, for an identifier that is not in it
\* and so against all five entries, while the other three tasks were running.
C16_Witness ==
  /\ regReads # {}
  /\ chkPc = "format" /\ ssidData = "EvilTwin" /\ secure = 0
  /\ scPc # "none" /\ logPc # "none" /\ supPc # "none"
  /\ registry = secureNetworks


\* A step of SupervisorTask: into its vTaskDelay or out of it.
SupervisorStep == supPc # "none" /\ supPc' # "none" /\ supPc' # supPc

CheckerInTime ==
  /\ "checker" \in wdtSubscribed
  /\ chkRefreshes >= 2
  /\ chkSilence <= 1

\* C19: every task subscribed to the watchdog (CheckerTask and the task
\* running app_main) refreshes it within the 5 s timeout, so while
\* CheckerTask keeps processing the watchdog timer never expires and the
\* chip is not restarted by it.
C19_NoExpiryWhileCheckerInTime ==
  CheckerInTime => wdtTimer < WDT_TIMEOUT_S /\ ~ENABLED WdtPanic


\* The counts carried by the alert lines printed so far, in output order.
PrintedCounts ==
  [i \in 1..Len(Alerts(output)) |-> Alerts(output)[i].cont]

\* C20: within a boot the counts carried by the alert lines LoggerTask has
\* printed are strictly increasing in output order, whatever the
\* interleaving and also when alert records were dropped at a full
\* logQueue: a count is never repeated and never goes back.
C20_PrintedCountsIncrease ==
  \A i, j \in 1..Len(PrintedCounts) :
    i < j => PrintedCounts[i] < PrintedCounts[j]

\* C20 witness: an alert record was dropped at a full logQueue and a later
\* alert was printed, so that the printed counts skip a number.
C20_Witness ==
  /\ logDropped >= 1
  /\ \E i \in 1..Len(PrintedCounts) - 1 :
       PrintedCounts[i + 1] > PrintedCounts[i] + 1

=============================================================================
